---- MODULE Spec2Model ----
(***************************************************************************)
(* Model of Utilities/build-script-helper.py: the command-line helper that *)
(* wraps `swift build` and `swift test` for indexstore-db.                 *)
(*                                                                         *)
(* A path, a command-line token and an environment value are all modelled  *)
(* as a sequence of strings.  A path is its sequence of components, the    *)
(* root being the component "/"; any other string is the one-component     *)
(* sequence holding it.  Python's None (and any other falsy value of such  *)
(* a field) is the empty sequence.                                         *)
(***************************************************************************)
EXTENDS Integers, Sequences, FiniteSets, TLC

VARIABLES
    argv,        \* sys.argv[1:], as the occurrences of each option
    system,      \* platform.system()
    cwd,         \* os.getcwd()
    fs,          \* the directories named isdb-tests that exist on disk
    args,        \* the argparse.Namespace that main and its callees hold
    swift_exec,  \* main's local swift_exec
    base,        \* main's local base
    bin_path,    \* run_tests' local bin_path
    pc,          \* the statement the program is about to execute
    ret,         \* where handle_invocation returns to
    exitCode,    \* the exit status of the process, once pc = "exited"
    trace,       \* history: child processes run and directories removed
    dispatched   \* history: the configuration of each handle_invocation call

vars == <<argv, system, cwd, fs, args, swift_exec, base, bin_path, pc,
          ret, exitCode, trace, dispatched>>

\* What the program reads and never writes.
inputs == <<argv, system, cwd>>

-----------------------------------------------------------------------------
(* Bounds and input sets *)

\* The largest number of --sanitize options on a command line.
MaxSanitize == 2

None == <<>>

Str(s) == <<s>>

Truthy(x) == x # None

Range(s) == {s[i] : i \in 1..Len(s)}

Sanitizers == {"address", "thread", "undefined"}

SanitizeLists == UNION {[1..n -> Sanitizers] : n \in 0..MaxSanitize}

\* Paths given on the command line: a relative one and an absolute one.
RelativeInput == <<"..", "t">>

AbsoluteInput == <<"/", "t">>

\* An option that takes a path: absent, or given once with a path.
PathOption == {None, <<RelativeInput>>, <<AbsoluteInput>>}

RelativePathOption == {None, <<RelativeInput>>}

AbsolutePathOption == {None, <<AbsoluteInput>>}

Actions == {None, Str("build"), Str("test"), Str("clean")}

\* Exit statuses of a child process; a negative one is death by a signal.
ExitStatuses == {0, 2, -9}

-----------------------------------------------------------------------------
(* os.path *)

isabs(p) == Len(p) > 0 /\ p[1] = "/"

\* os.path.join(a, b): an absolute b discards a.
join(a, b) == IF isabs(b) THEN b ELSE a \o b

RECURSIVE normparts(_, _)
\* The loop of posixpath.normpath over the components after the root:
\* `done' is what has been kept so far, root included for an absolute path.
normparts(done, rest) ==
    IF rest = <<>> THEN done
    ELSE LET c == Head(rest) IN
        IF c = "." THEN normparts(done, Tail(rest))
        ELSE IF c # ".." THEN normparts(Append(done, c), Tail(rest))
        ELSE IF done = <<"/">> THEN normparts(done, Tail(rest))
        ELSE IF done = <<>> \/ done[Len(done)] = ".."
            THEN normparts(Append(done, c), Tail(rest))
        ELSE normparts(SubSeq(done, 1, Len(done) - 1), Tail(rest))

normpath(p) ==
    LET r == IF isabs(p) THEN normparts(<<"/">>, Tail(p))
             ELSE normparts(<<>>, p)
    IN IF r = <<>> THEN <<".">> ELSE r

abspath_relative_kept(p) == normpath(p)

abspath(p) == normpath(IF isabs(p) THEN p ELSE join(cwd, p))

-----------------------------------------------------------------------------
(* SwiftPM wrappers *)

SanitizeFlag(san) == Str("--sanitize=" \o san)

RECURSIVE SanitizeFlags(_)
SanitizeFlags(sans) ==
    IF sans = <<>> THEN <<>>
    ELSE <<SanitizeFlag(Head(sans))>> \o SanitizeFlags(Tail(sans))

\* get_swiftpm_options: the arguments of a `swift build' or `swift test'.
get_swiftpm_options(a) ==
    <<Str("--package-path"), a.package_path,
      Str("--scratch-path"), a.build_path,
      Str("--configuration"), Str(a.configuration)>>
    \o (IF Truthy(a.multiroot_data_file)
        THEN <<Str("--multiroot-data-file"), a.multiroot_data_file>>
        ELSE <<>>)
    \o (IF a.verbose THEN <<Str("--verbose")>> ELSE <<>>)
    \o (IF Truthy(a.sanitize) THEN SanitizeFlags(a.sanitize) ELSE <<>>)
    \o (IF system # "Darwin"
        THEN <<Str("-Xcxx"), Str("-I"), Str("-Xcxx"),
               join(join(a.toolchain, Str("lib")), Str("swift")),
               Str("-Xcxx"), Str("-I"), Str("-Xcxx"),
               join(join(join(a.toolchain, Str("lib")), Str("swift")),
                    Str("Block"))>>
        ELSE <<>>)

get_swiftpm_environment_variables_no_asan(a) ==
    ("INDEXSTOREDB_TOOLCHAIN_BIN_PATH" :> a.toolchain)
    @@ ("SWIFTCI_USE_LOCAL_DEPS" :> Str("1"))
    @@ (IF Truthy(a.ninja_bin) THEN "NINJA_BIN" :> a.ninja_bin ELSE <<>>)
    @@ (IF Truthy(a.sanitize) /\ "undefined" \in Range(a.sanitize)
        THEN "UBSAN_OPTIONS" :>
                 (Str("halt_on_error=true,suppressions=")
                  \o join(join(a.package_path, Str("Utilities")),
                          Str("ubsan_supressions.supp")))
        ELSE <<>>)
    @@ (IF Truthy(a.sanitize) /\ "thread" \in Range(a.sanitize)
        THEN "INDEXSTOREDB_ENABLED_THREAD_SANITIZER" :> Str("1")
        ELSE <<>>)

\* get_swiftpm_environment_variables: the environment overlay of a child.
get_swiftpm_environment_variables(a) ==
    ("INDEXSTOREDB_TOOLCHAIN_BIN_PATH" :> a.toolchain)
    @@ ("SWIFTCI_USE_LOCAL_DEPS" :> Str("1"))
    @@ (IF Truthy(a.ninja_bin) THEN "NINJA_BIN" :> a.ninja_bin ELSE <<>>)
    @@ (IF Truthy(a.sanitize) /\ "address" \in Range(a.sanitize)
        THEN "ASAN_OPTIONS" :> Str("detect_leaks=false")
        ELSE <<>>)
    @@ (IF Truthy(a.sanitize) /\ "undefined" \in Range(a.sanitize)
        THEN "UBSAN_OPTIONS" :>
                 (Str("halt_on_error=true,suppressions=")
                  \o join(join(a.package_path, Str("Utilities")),
                          Str("ubsan_supressions.supp")))
        ELSE <<>>)
    @@ (IF Truthy(a.sanitize) /\ "thread" \in Range(a.sanitize)
        THEN "INDEXSTOREDB_ENABLED_THREAD_SANITIZER" :> Str("1")
        ELSE <<>>)

-----------------------------------------------------------------------------
(* General utilities *)

fatal_error_exit_2 ==
    /\ pc' = "exited"
    /\ exitCode' = 2

\* fatal_error: print the message and raise SystemExit(1).
fatal_error ==
    /\ pc' = "exited"
    /\ exitCode' = 1

\* An exception nobody catches (subprocess.CalledProcessError,
\* AttributeError): the interpreter prints the traceback and exits 1.
uncaught_exception ==
    /\ pc' = "exited"
    /\ exitCode' = 1

\* parser.error of argparse: print the usage and exit 2.
argparse_error ==
    /\ pc' = "exited"
    /\ exitCode' = 2

\* A child process that has run: its command, its environment overlay, its
\* exit status, what check_output read from it, and the configuration and
\* the handle_invocation call (first, second, ...) it was run for.
SpawnEvent(kind, cmd, env, status, output) ==
    [ev |-> "spawn", kind |-> kind, cmd |-> cmd, env |-> env,
     status |-> status, output |-> output, sanitize |-> args.sanitize,
     build_path |-> args.build_path, call |-> Len(dispatched)]

check_call_ignoring_status(kind, cmd, additional_env, next) ==
    \E status \in ExitStatuses :
        /\ trace' = Append(trace,
                           SpawnEvent(kind, cmd, additional_env, status, None))
        /\ pc' = next
        /\ UNCHANGED exitCode

\* check_call: run the child to completion; subprocess.check_call raises
\* CalledProcessError on a non-zero return code.
check_call(kind, cmd, additional_env, next) ==
    \E status \in ExitStatuses :
        /\ trace' = Append(trace,
                           SpawnEvent(kind, cmd, additional_env, status, None))
        /\ IF status # 0
           THEN uncaught_exception
           ELSE pc' = next /\ UNCHANGED exitCode

\* What `swift build --show-bin-path' prints for the configuration.
BinPathOutput(a) == join(a.build_path, Str(a.configuration))

\* check_output: as check_call, and return what the child printed.
check_output(kind, cmd, additional_env, next) ==
    \E status \in ExitStatuses :
        /\ trace' = Append(trace,
                           SpawnEvent(kind, cmd, additional_env, status,
                                      IF status = 0 THEN BinPathOutput(args)
                                      ELSE None))
        /\ IF status # 0
           THEN uncaught_exception /\ UNCHANGED bin_path
           ELSE /\ pc' = next
                /\ bin_path' = BinPathOutput(args)
                /\ UNCHANGED exitCode

-----------------------------------------------------------------------------
(* Argument parsing *)

OptionValue(occurrences, default) ==
    IF occurrences = None THEN default
    ELSE occurrences[Len(occurrences)]

\* The namespace argparse fills in for an accepted command line.
Namespace(v) ==
    [action |-> v.action[1],
     package_path |-> OptionValue(v.package_path, Str(".")),
     toolchain |-> OptionValue(v.toolchain, None),
     ninja_bin |-> OptionValue(v.ninja_bin, None),
     build_path |-> OptionValue(v.build_path, Str(".build")),
     configuration |-> OptionValue(v.configuration, "debug"),
     sanitize |-> v.sanitize,
     sanitize_all |-> v.sanitize_all,
     verbose |-> v.verbose,
     multiroot_data_file |-> OptionValue(v.multiroot_data_file, None)]

\* The namespace before parse_args has run.
NoArgs ==
    [action |-> "None", package_path |-> None, toolchain |-> None,
     ninja_bin |-> None, build_path |-> None, configuration |-> "debug",
     sanitize |-> None, sanitize_all |-> FALSE, verbose |-> FALSE,
     multiroot_data_file |-> None]

\* parser.parse_args accepts the command line: a known subcommand and the
\* required --toolchain.
ArgparseAccepts(v) ==
    /\ v.action \in {Str("build"), Str("test")}
    /\ v.toolchain # None

\* Lines 198-201: canonicalize paths.
Canonicalize(n) ==
    [n EXCEPT !.package_path = abspath(n.package_path),
              !.build_path = abspath(n.build_path),
              !.toolchain = abspath(n.toolchain)]

\* The command line holds no option at all.
NoOptions(v) ==
    /\ v.package_path = None /\ v.toolchain = None /\ v.ninja_bin = None
    /\ v.build_path = None /\ v.configuration = None /\ v.sanitize = None
    /\ ~v.sanitize_all /\ ~v.verbose /\ v.multiroot_data_file = None

ParseArgs_no_conflict_check ==
    /\ pc = "parse_args"
    /\ \E py37 \in BOOLEAN :
       IF ArgparseAccepts(argv)
       THEN /\ args' = Canonicalize(Namespace(argv))
            /\ pc' = "main_212"
            /\ UNCHANGED exitCode
       ELSE IF argv.action = None /\ ~py37 /\ NoOptions(argv)
       THEN /\ uncaught_exception
            /\ UNCHANGED args
       ELSE /\ argparse_error
            /\ UNCHANGED args
    /\ UNCHANGED <<inputs, base, fs, swift_exec, bin_path, ret,
                   trace, dispatched>>

\* parse_args.  Given an empty command line an interpreter older than 3.7
\* (subcommand not required) returns a namespace holding only action=None,
\* and line 199 raises AttributeError; every other command line without a
\* known subcommand or without --toolchain is an argparse error.
ParseArgs ==
    /\ pc = "parse_args"
    /\ \E py37 \in BOOLEAN :
       IF ArgparseAccepts(argv)
       THEN LET n == Canonicalize(Namespace(argv)) IN
            IF Truthy(n.sanitize) /\ n.sanitize_all
            THEN /\ fatal_error
                 /\ UNCHANGED args
            ELSE /\ args' = n
                 /\ pc' = "main_212"
                 /\ UNCHANGED exitCode
       ELSE IF argv.action = None /\ ~py37 /\ NoOptions(argv)
       THEN /\ uncaught_exception
            /\ UNCHANGED args
       ELSE /\ argparse_error
            /\ UNCHANGED args
    /\ UNCHANGED <<inputs, base, fs, swift_exec, bin_path, ret,
                   trace, dispatched>>

-----------------------------------------------------------------------------
(* Build indexstore-db *)

BuildCmd(a) ==
    <<swift_exec, Str("build"), Str("--product"),
      Str("IndexStoreDBPackageTests")>> \o get_swiftpm_options(a)

\* build: one `swift build' child.
Build ==
    /\ pc = "build"
    /\ check_call("build", BuildCmd(args),
                  get_swiftpm_environment_variables(args), ret)
    /\ UNCHANGED <<inputs, base, fs, args, swift_exec, bin_path,
                   ret, dispatched>>

BinPathCmd(a) ==
    <<swift_exec, Str("build"), Str("--show-bin-path")>>
    \o get_swiftpm_options(a)

\* run_tests, line 148: swiftpm_bin_path.
RunTestsBinPath ==
    /\ pc = "run_tests_148"
    /\ check_output("bin-path", BinPathCmd(args),
                    get_swiftpm_environment_variables(args), "run_tests_149")
    /\ UNCHANGED <<inputs, base, fs, args, swift_exec, ret,
                   dispatched>>

RmtreeEvent(path) ==
    [ev |-> "rmtree", path |-> path, existed |-> path \in fs,
     call |-> Len(dispatched)]

RunTestsClean_strict ==
    /\ pc = "run_tests_149"
    /\ LET tests == join(bin_path, Str("isdb-tests")) IN
        /\ trace' = Append(trace, RmtreeEvent(tests))
        /\ fs' = fs \ {tests}
        /\ IF tests \in fs
           THEN pc' = "run_tests_153" /\ UNCHANGED exitCode
           ELSE uncaught_exception
    /\ UNCHANGED <<inputs, base, args, swift_exec, bin_path, ret,
                   dispatched>>

\* run_tests, lines 149-151: shutil.rmtree(tests, ignore_errors=True).
RunTestsClean ==
    /\ pc = "run_tests_149"
    /\ LET tests == join(bin_path, Str("isdb-tests")) IN
        /\ trace' = Append(trace, RmtreeEvent(tests))
        /\ fs' = fs \ {tests}
    /\ pc' = "run_tests_153"
    /\ UNCHANGED <<inputs, base, args, swift_exec, bin_path, ret,
                   exitCode, dispatched>>

TestCmd(a) ==
    <<swift_exec, Str("test"), Str("--parallel"), Str("--test-product"),
      Str("IndexStoreDBPackageTests")>> \o get_swiftpm_options(a)

\* run_tests, lines 153-154: the `swift test' child.
RunTestsTest ==
    /\ pc = "run_tests_153"
    /\ check_call("test", TestCmd(args),
                  get_swiftpm_environment_variables(args), ret)
    /\ UNCHANGED <<inputs, base, fs, args, swift_exec, bin_path,
                   ret, dispatched>>

DispatchRecord(a) ==
    [action |-> a.action, sanitize |-> a.sanitize,
     build_path |-> a.build_path]

HandleInvocation_else_tests ==
    /\ pc = "handle_invocation"
    /\ dispatched' = Append(dispatched, DispatchRecord(args))
    /\ IF args.action = "build"
       THEN pc' = "build" /\ UNCHANGED exitCode
       ELSE pc' = "run_tests_148" /\ UNCHANGED exitCode
    /\ UNCHANGED <<inputs, base, fs, args, swift_exec, bin_path,
                   ret, trace>>

\* handle_invocation.
HandleInvocation ==
    /\ pc = "handle_invocation"
    /\ dispatched' = Append(dispatched, DispatchRecord(args))
    /\ IF args.action = "build"
       THEN pc' = "build" /\ UNCHANGED exitCode
       ELSE IF args.action = "test"
       THEN pc' = "run_tests_148" /\ UNCHANGED exitCode
       ELSE fatal_error
    /\ UNCHANGED <<inputs, base, fs, args, swift_exec, bin_path,
                   ret, trace>>

-----------------------------------------------------------------------------
(* main *)

\* Lines 212-217.
MainFirst ==
    /\ pc = "main_212"
    /\ swift_exec' = IF Truthy(args.toolchain)
                     THEN join(join(args.toolchain, Str("bin")), Str("swift"))
                     ELSE Str("swift")
    /\ pc' = "handle_invocation"
    /\ ret' = "main_219"
    /\ UNCHANGED <<inputs, base, fs, args, bin_path, exitCode,
                   trace, dispatched>>

\* Lines 219-225: leave when --sanitize-all is not set, else the asan pass.
MainAsan ==
    /\ pc = "main_219"
    /\ IF args.sanitize_all
       THEN /\ base' = args.build_path
            /\ args' = [args EXCEPT
                          !.sanitize = <<"address">>,
                          !.build_path = join(base', Str("test-asan"))]
            /\ pc' = "handle_invocation"
            /\ ret' = "main_227"
            /\ UNCHANGED exitCode
       ELSE /\ pc' = "exited"
            /\ exitCode' = 0
            /\ UNCHANGED <<base, args, ret>>
    /\ UNCHANGED <<inputs, fs, swift_exec, bin_path, trace, dispatched>>

MainTsan_extends ==
    /\ pc = "main_227"
    /\ args' = [args EXCEPT
                  !.sanitize = Append(args.sanitize, "thread"),
                  !.build_path = join(base, Str("test-tsan"))]
    /\ pc' = "handle_invocation"
    /\ ret' = "main_239"
    /\ UNCHANGED <<inputs, base, fs, swift_exec, bin_path, exitCode, trace,
                   dispatched>>

\* Lines 227-230: the tsan pass.
MainTsan ==
    /\ pc = "main_227"
    /\ args' = [args EXCEPT
                  !.sanitize = <<"thread">>,
                  !.build_path = join(base, Str("test-tsan"))]
    /\ pc' = "handle_invocation"
    /\ ret' = "main_239"
    /\ UNCHANGED <<inputs, base, fs, swift_exec, bin_path, exitCode, trace,
                   dispatched>>

MainUbsan_enabled ==
    /\ pc = "main_239"
    /\ IF system # "Linux"
       THEN /\ args' = [args EXCEPT
                          !.sanitize = <<"undefined">>,
                          !.build_path = join(base, Str("test-ubsan"))]
            /\ pc' = "handle_invocation"
            /\ ret' = "exited"
            /\ UNCHANGED exitCode
       ELSE /\ pc' = "exited"
            /\ exitCode' = 0
            /\ UNCHANGED <<args, ret>>
    /\ UNCHANGED <<inputs, base, fs, swift_exec, bin_path, trace, dispatched>>

\* Lines 239-243: the ubsan pass, switched off by `and False', and the end
\* of main.  handle_invocation would return to the end of main, where the
\* process exits with the status 0 it has had since it started.
MainUbsan ==
    /\ pc = "main_239"
    /\ IF system # "Linux" /\ FALSE
       THEN /\ args' = [args EXCEPT
                          !.sanitize = <<"undefined">>,
                          !.build_path = join(base, Str("test-ubsan"))]
            /\ pc' = "handle_invocation"
            /\ ret' = "exited"
            /\ UNCHANGED exitCode
       ELSE /\ pc' = "exited"
            /\ exitCode' = 0
            /\ UNCHANGED <<args, ret>>
    /\ UNCHANGED <<inputs, base, fs, swift_exec, bin_path, trace, dispatched>>

-----------------------------------------------------------------------------
(* Specifications *)

CommandLines ==
    [action : Actions,
     package_path : RelativePathOption,
     toolchain : PathOption,
     ninja_bin : RelativePathOption,
     build_path : AbsolutePathOption,
     configuration : {None},
     sanitize : SanitizeLists,
     sanitize_all : BOOLEAN,
     verbose : BOOLEAN,
     multiroot_data_file : RelativePathOption]

\* The isdb-tests directories a run of the command line may come across.
StaleDirs(v, dir) ==
    LET b == join(dir, OptionValue(v.build_path, Str(".build")))
        c == OptionValue(v.configuration, "debug")
    IN {join(join(d, Str(c)), Str("isdb-tests")) :
            d \in {normpath(b), normpath(join(b, Str("test-asan"))),
                   normpath(join(b, Str("test-tsan")))}}

\* The process starts: nothing has run.
Init ==
    /\ argv \in CommandLines
    /\ system \in {"Darwin", "Linux"}
    /\ cwd = <<"/", "w">>
    /\ fs \in {{}, StaleDirs(argv, cwd)}
    /\ args = NoArgs
    /\ swift_exec = None
    /\ base = None
    /\ bin_path = None
    /\ pc = "parse_args"
    /\ ret = "none"
    /\ exitCode = 0
    /\ trace = <<>>
    /\ dispatched = <<>>

Next ==
    \/ ParseArgs
    \/ MainFirst
    \/ HandleInvocation
    \/ Build
    \/ RunTestsBinPath
    \/ RunTestsClean
    \/ RunTestsTest
    \/ MainAsan
    \/ MainTsan
    \/ MainUbsan

Spec == Init /\ [][Next]_vars

\* Namespaces handed to handle_invocation by a direct caller.
Namespaces ==
    [action : {"build", "test", "clean", "None"},
     package_path : {<<"/", "p">>},
     toolchain : {AbsoluteInput},
     ninja_bin : {None, RelativeInput},
     build_path : {<<"/", "b">>},
     configuration : {"debug"},
     sanitize : SanitizeLists,
     sanitize_all : BOOLEAN,
     verbose : BOOLEAN,
     multiroot_data_file : {None}]

NoCommandLine ==
    [action |-> None, package_path |-> None, toolchain |-> None,
     ninja_bin |-> None, build_path |-> None, configuration |-> None,
     sanitize |-> None, sanitize_all |-> FALSE, verbose |-> FALSE,
     multiroot_data_file |-> None]

\* handle_invocation(swift_exec, args) is about to be called on its own.
InitHandle ==
    /\ argv = NoCommandLine
    /\ system \in {"Darwin", "Linux"}
    /\ cwd = <<"/", "w">>
    /\ args \in Namespaces
    /\ fs \in {{}, {<<"/", "b", "debug", "isdb-tests">>}}
    /\ swift_exec = join(join(args.toolchain, Str("bin")), Str("swift"))
    /\ base = None
    /\ bin_path = None
    /\ pc = "handle_invocation"
    /\ ret = "returned"
    /\ exitCode = 0
    /\ trace = <<>>
    /\ dispatched = <<>>

NextHandle ==
    \/ HandleInvocation
    \/ Build
    \/ RunTestsBinPath
    \/ RunTestsClean
    \/ RunTestsTest

SpecHandle == InitHandle /\ [][NextHandle]_vars

-----------------------------------------------------------------------------
(* Properties *)

Exited == pc = "exited"

\* parse_args has returned its namespace to main.
ParseArgsReturned == args # NoArgs

IsSpawn(e, kind) == e.ev = "spawn" /\ e.kind = kind

Has(env, key, value) == key \in DOMAIN env /\ env[key] = value

\* The command line passes argparse: a known subcommand and --toolchain.
CommandLineAccepted ==
    /\ argv.action \in {Str("build"), Str("test")}
    /\ argv.toolchain # None

CommandLineConflict == argv.sanitize # None /\ argv.sanitize_all

ChildFailed == \E i \in DOMAIN trace : trace[i].ev = "spawn" /\ trace[i].status # 0

\* C1: in run_tests every `swift test --parallel' child comes right after
\* the removal of <bin path>/isdb-tests, which comes right after the
\* successful `swift build --show-bin-path' child of the same call that
\* returned that bin path; a removal never ends the run, whether or not the
\* directory existed: the program stands before the test child, which can
\* be spawned, and the directory is gone.
C1_TestAfterClean ==
    /\ \A i \in DOMAIN trace :
        IsSpawn(trace[i], "test") =>
            /\ i >= 3
            /\ trace[i].cmd[2] = Str("test")
            /\ trace[i].cmd[3] = Str("--parallel")
            /\ trace[i-1].ev = "rmtree"
            /\ trace[i-1].call = trace[i].call
            /\ IsSpawn(trace[i-2], "bin-path")
            /\ trace[i-2].call = trace[i].call
            /\ trace[i-2].status = 0
            /\ trace[i-2].cmd[2] = Str("build")
            /\ trace[i-2].cmd[3] = Str("--show-bin-path")
            /\ trace[i-1].path = trace[i-2].output \o Str("isdb-tests")
    /\ \A i \in DOMAIN trace :
        trace[i].ev = "rmtree" =>
            IF i = Len(trace)
            THEN /\ pc = "run_tests_153"
                 /\ ENABLED RunTestsTest
                 /\ trace[i].path \notin fs
            ELSE IsSpawn(trace[i+1], "test")

\* C1 witness: the test child has run after the removal of a directory that
\* did not exist.
C1_Witness ==
    \E i \in DOMAIN trace :
        /\ IsSpawn(trace[i], "test")
        /\ trace[i-1].ev = "rmtree"
        /\ ~trace[i-1].existed

\* The build path parse_args leaves in the namespace.
OriginalBuildPath ==
    IF argv.build_path = None THEN cwd \o Str(".build")
    ELSE argv.build_path[1]

\* The three dispatches of a --sanitize-all run, in order.
SweepDispatches ==
    LET action == OptionValue(argv.action, "None") IN
    <<[action |-> action, sanitize |-> None,
       build_path |-> OriginalBuildPath],
      [action |-> action, sanitize |-> <<"address">>,
       build_path |-> OriginalBuildPath \o Str("test-asan")],
      [action |-> action, sanitize |-> <<"thread">>,
       build_path |-> OriginalBuildPath \o Str("test-tsan")]>>

\* C2: with --sanitize-all the dispatches made so far are always the first
\* ones of (no sanitizer at the original build path, ['address'] at
\* test-asan, ['thread'] at test-tsan), none uses 'undefined', and a run
\* whose children all succeeded ends with exactly these three; without
\* --sanitize-all there is never more than one dispatch, and exactly one
\* when the run ends with success.
C2_SweepOrder ==
    /\ argv.sanitize_all =>
        /\ Len(dispatched) <= 3
        /\ dispatched = SubSeq(SweepDispatches, 1, Len(dispatched))
        /\ \A i \in DOMAIN dispatched :
               "undefined" \notin Range(dispatched[i].sanitize)
        /\ (Exited /\ exitCode = 0) => dispatched = SweepDispatches
    /\ ~argv.sanitize_all =>
        /\ Len(dispatched) <= 1
        /\ (Exited /\ exitCode = 0) => Len(dispatched) = 1

\* C2 witness: a --sanitize-all run has ended with success after its three
\* dispatches.
C2_Witness ==
    /\ Exited
    /\ exitCode = 0
    /\ argv.sanitize_all
    /\ Len(dispatched) = 3
    /\ system = "Darwin"

\* C3: a child process that exited non-zero is the last thing the run did:
\* nothing was spawned or removed after it, no further handle_invocation call
\* was made, and the process has ended with a failure status.
C3_FailureStops ==
    \A i \in DOMAIN trace :
        (trace[i].ev = "spawn" /\ trace[i].status # 0) =>
            /\ i = Len(trace)
            /\ Len(dispatched) = trace[i].call
            /\ Exited
            /\ exitCode # 0

\* C3 witness: the bin-path query of the asan pass of a sweep has failed, so
\* that its test child and the tsan pass are skipped.
C3_Witness ==
    /\ argv.sanitize_all
    /\ trace # <<>>
    /\ IsSpawn(trace[Len(trace)], "bin-path")
    /\ trace[Len(trace)].status # 0
    /\ trace[Len(trace)].call = 2
    /\ Exited

\* C4 as claimed: a command line with --sanitize and --sanitize-all ends
\* with exit code 1 and without any child process.
C4_Claimed ==
    CommandLineConflict =>
        /\ trace = <<>>
        /\ Exited => exitCode = 1

\* C4 amended: a command line with --sanitize and --sanitize-all never gets
\* past parse_args and never spawns a child process; it ends with exit code
\* 1 when argparse accepts it (known subcommand, --toolchain given) and with
\* argparse's exit code 2 when it does not.
C4_ConflictExits ==
    CommandLineConflict =>
        /\ trace = <<>>
        /\ dispatched = <<>>
        /\ pc \in {"parse_args", "exited"}
        /\ Exited => exitCode = IF CommandLineAccepted THEN 1 ELSE 2

\* C4 witness: an accepted command line with both options has exited 1.
C4_Witness ==
    /\ CommandLineConflict
    /\ CommandLineAccepted
    /\ Exited
    /\ exitCode = 1

GivenAbsolute(p) == Truthy(p) => isabs(p)

\* C5 as claimed: after parse_args every path of the namespace is absolute.
C5_Claimed ==
    ParseArgsReturned =>
        /\ isabs(args.package_path)
        /\ isabs(args.toolchain)
        /\ isabs(args.build_path)
        /\ GivenAbsolute(args.ninja_bin)
        /\ GivenAbsolute(args.multiroot_data_file)

\* C5 amended: after parse_args the package path, the toolchain path and the
\* build path are absolute, however they were given; the ninja binary path
\* and the multiroot data file path are what the command line gave.
C5_ThreePathsAbsolute ==
    ParseArgsReturned =>
        /\ isabs(args.package_path)
        /\ isabs(args.toolchain)
        /\ isabs(args.build_path)
        /\ args.ninja_bin = OptionValue(argv.ninja_bin, None)
        /\ args.multiroot_data_file = OptionValue(argv.multiroot_data_file, None)

\* C5 witness: parse_args has returned for a command line with a relative
\* toolchain, a relative package path and a relative ninja binary.
C5_Witness ==
    /\ ParseArgsReturned
    /\ argv.toolchain = <<RelativeInput>>
    /\ argv.package_path = <<RelativeInput>>
    /\ argv.ninja_bin = <<RelativeInput>>
    /\ argv.build_path = None
    /\ args.toolchain = <<"/", "t">>
    /\ args.build_path = <<"/", "w", ".build">>

\* C6 as claimed: every failure ends the process with exit code 1, and the
\* process exits 0 only when every spawned child exited 0.
C6_Claimed ==
    Exited =>
        /\ (~CommandLineAccepted \/ CommandLineConflict \/ ChildFailed)
               => exitCode = 1
        /\ exitCode = 0 => ~ChildFailed

\* C6 amended: the process exits 0 exactly when the command line was
\* accepted without conflict and no child exited non-zero; the
\* --sanitize/--sanitize-all conflict and a child that exits with any
\* non-zero status end it with exit code 1; a command line argparse rejects
\* (no or unknown subcommand, no --toolchain) ends it with exit code 2,
\* except the empty command line, which ends it with 1 or 2.
C6_ExitCodes ==
    Exited =>
        /\ exitCode \in {0, 1, 2}
        /\ exitCode = 0 <=>
               (CommandLineAccepted /\ ~CommandLineConflict /\ ~ChildFailed)
        /\ CommandLineAccepted => exitCode # 2
        /\ (~CommandLineAccepted /\ ~NoOptions(argv)) => exitCode = 2
        /\ (~CommandLineAccepted /\ argv.action # None) => exitCode = 2

\* C6 witness: a child killed by a signal has ended the process with 1.
C6_Witness ==
    /\ Exited
    /\ exitCode = 1
    /\ \E i \in DOMAIN trace :
           trace[i].ev = "spawn" /\ trace[i].status = -9

\* C7: whenever the sanitizer list of the configuration contains 'address',
\* the environment overlay computed for it holds
\* ASAN_OPTIONS=detect_leaks=false, and so did the overlay of every child
\* process run for such a configuration.
C7_AsanOptions ==
    /\ "address" \in Range(args.sanitize) =>
           Has(get_swiftpm_environment_variables(args), "ASAN_OPTIONS",
               Str("detect_leaks=false"))
    /\ \A i \in DOMAIN trace :
           (trace[i].ev = "spawn" /\ "address" \in Range(trace[i].sanitize))
               => Has(trace[i].env, "ASAN_OPTIONS", Str("detect_leaks=false"))

\* C7 witness: the test child of the address pass of a sweep has run.
C7_Witness ==
    \E i \in DOMAIN trace :
        /\ IsSpawn(trace[i], "test")
        /\ argv.sanitize_all
        /\ trace[i].sanitize = <<"address">>
        /\ IsSpawn(trace[i-2], "bin-path")
        /\ trace[i-2].sanitize = <<"address">>

\* C8: handle_invocation called with an action other than 'build' and
\* 'test' spawns no child process and ends in a fatal error, exit code 1.
C8_UnknownAction ==
    args.action \notin {"build", "test"} =>
        /\ trace = <<>>
        /\ pc \in {"handle_invocation", "exited"}
        /\ Exited => exitCode = 1

\* C8 witness: handle_invocation has been called with action 'clean'.
C8_Witness ==
    /\ args.action = "clean"
    /\ Len(dispatched) = 1
    /\ Exited

MutuallyExclusive == ~(Truthy(args.sanitize) /\ args.sanitize_all)

\* C9 as claimed: from the return of parse_args on, the sanitizer list is
\* never non-empty while sanitize_all is set.
C9_Claimed == ParseArgsReturned => MutuallyExclusive

\* C9 amended: the sanitizer list and sanitize_all are mutually exclusive
\* from the return of parse_args until the sweep starts (through the whole
\* first dispatch), and in every run without --sanitize-all; once the sweep
\* has started, sanitize_all is set while the sanitizer list is ['address']
\* or ['thread'].
C9_ExclusiveUntilSweep ==
    ParseArgsReturned =>
        /\ argv.sanitize = None \/ ~argv.sanitize_all
        /\ ret \in {"none", "main_219"} => MutuallyExclusive
        /\ ret \notin {"none", "main_219"} =>
               /\ args.sanitize_all
               /\ args.sanitize \in {<<"address">>, <<"thread">>}

\* C9 witness: the first dispatch of a --sanitize-all run has returned.
C9_Witness ==
    /\ ParseArgsReturned
    /\ args.sanitize_all
    /\ pc = "main_219"

\* C10: in a --sanitize-all run each child carries the arguments and the
\* environment of its own pass only: none in the first pass, address in the
\* second, thread in the third; INDEXSTOREDB_TOOLCHAIN_BIN_PATH and
\* SWIFTCI_USE_LOCAL_DEPS are the same in every pass.
C10_PassOwnSanitizer ==
    argv.sanitize_all =>
        \A i \in DOMAIN trace :
            trace[i].ev = "spawn" =>
                LET cmd == Range(trace[i].cmd)
                    env == trace[i].env
                    n == trace[i].call
                IN /\ n \in 1..3
                   /\ Str("--sanitize=address") \in cmd <=> n = 2
                   /\ "ASAN_OPTIONS" \in DOMAIN env <=> n = 2
                   /\ Str("--sanitize=thread") \in cmd <=> n = 3
                   /\ "INDEXSTOREDB_ENABLED_THREAD_SANITIZER" \in DOMAIN env
                          <=> n = 3
                   /\ n = 3 => env["INDEXSTOREDB_ENABLED_THREAD_SANITIZER"]
                                   = Str("1")
                   /\ Str("--sanitize=undefined") \notin cmd
                   /\ "UBSAN_OPTIONS" \notin DOMAIN env
                   /\ Has(env, "INDEXSTOREDB_TOOLCHAIN_BIN_PATH",
                          trace[1].env["INDEXSTOREDB_TOOLCHAIN_BIN_PATH"])
                   /\ Has(env, "INDEXSTOREDB_TOOLCHAIN_BIN_PATH", args.toolchain)
                   /\ Has(env, "SWIFTCI_USE_LOCAL_DEPS", Str("1"))

\* C10 witness: a child of the thread pass has run.
C10_Witness ==
    /\ argv.sanitize_all
    /\ \E i \in DOMAIN trace : trace[i].ev = "spawn" /\ trace[i].call = 3

====
